---- MODULE Spec2Model ----
(***************************************************************************)
(* Inventory-and-sales backend (FastAPI handlers over two MongoDB          *)
(* collections).  The model follows src/app/routes/Sales.py add_new_sale   *)
(* storage call by storage call (each await is a suspension point, the     *)
(* code between two awaits runs without interruption) and the inventory    *)
(* handlers of src/app/routes/Inventory.py, each of which makes one        *)
(* storage call.                                                           *)
(*                                                                         *)
(* Money: unit_price is an integer number of currency units; total and     *)
(* tax_5_percent are kept in hundredths of a unit, so that                 *)
(* unit_price * quantity * 0.95 is unit_price * quantity * 95 hundredths   *)
(* (28.5 is 2850).  Binary floating point rounding is not modelled.        *)
(*                                                                         *)
(* A storage call that raises is modelled as having had no effect.         *)
(***************************************************************************)
EXTENDS Integers, Sequences, FiniteSets, TLC

\* ---------------------------------------------------------------- bounds
NumReq == 2        \* add_new_sale requests in one behaviour
MaxItems == 2      \* inventory documents held at once
MaxStock == 3      \* largest seeded Quantity / largest requested quantity

\* inventory _ids the storage layer hands out: one more than fit at once, so
\* that an item can be deleted and another added
MaxId == MaxItems + 1

\* ------------------------------------------------------ program constants
NetPercent == 95            \* sale.total = unit_price * quantity * 0.95
TaxPercent == 5             \* sale.tax_5_percent = unit_price * quantity * 0.05
LowQuantityQuery == 10      \* find({"Quantity": {"$lt": 10}})
WarningThreshold == 10      \* handle_quantity_warning: if quantity < 10
ListCap == 100              \* to_list(length=100)

VARIABLES
    inventory,             \* the inventory collection, in natural order
    sales,                 \* the sales collection, in natural order
    nextId,                \* next inventory _id the storage layer generates
    pc,                    \* pc[r]: where add_new_sale request r stands
    sale,                  \* sale[r]: the Sale object of request r
    product_in_inventory,  \* product_in_inventory[r]: the document r read
    update_result,         \* update_result[r]: matched count of r's update_one
    insert_result,         \* insert_result[r]: inserted_id of r's insert_one
    response,              \* response of the last inventory handler
    inventory0             \* the inventory collection as it was at start-up

vars == <<inventory, sales, nextId, pc, sale, product_in_inventory,
          update_result, insert_result, response, inventory0>>

Req == 1..NumReq
Names == {"A", "B"}

\* find_one's "no document": Python None
None == [_id |-> 0, Products |-> "None", Quantity |-> 0]
\* update_result / insert_result before the call returned
NotCalled == -1

Min(S) == CHOOSE x \in S : \A y \in S : x <= y

\* ------------------------------------------------------- storage gateway
\* indexes of the documents of coll whose Products field equals name
MatchProducts(coll, name) == {i \in DOMAIN coll : coll[i].Products = name}

\* inventory_collection.find_one({"Products": name})
find_one_products(coll, name) ==
    IF MatchProducts(coll, name) = {} THEN None
    ELSE coll[Min(MatchProducts(coll, name))]

\* inventory_collection.update_one({"Products": name}, {"$set": {"Quantity": q}})
update_one_products(coll, name, q) ==
    IF MatchProducts(coll, name) = {} THEN coll
    ELSE [coll EXCEPT ![Min(MatchProducts(coll, name))].Quantity = q]

\* matched_count of that update_one
matched_products(coll, name) ==
    IF MatchProducts(coll, name) = {} THEN 0 ELSE 1

\* -------------------------------------------------------------- add_new_sale
\* the request bodies a caller can send: total, tax, date and time are
\* whatever the caller supplies
SaleBodies(prices, supplied) ==
    [product_line : Names, unit_price : prices,
     quantity : (0 - 1)..MaxStock,
     tax_5_percent : supplied, total : supplied,
     date : {"caller"}, time : {"caller"}]

NoSale == [product_line |-> "None", unit_price |-> 0, quantity |-> 0,
           tax_5_percent |-> 0, total |-> 0, date |-> "", time |-> ""]

\* faulty variant: the stock check is off by one
InsufficientQuantityOffByOne(doc, s) == doc.Quantity + 1 < s.quantity

\* line 232: product_in_inventory["Quantity"] < sale.quantity
InsufficientQuantity(doc, s) == doc.Quantity < s.quantity

\* faulty variant: the total keeps the tax in
ComputeTotalGross(s) == s.unit_price * s.quantity * 100

\* lines 238-239, in hundredths
ComputeTotal(s) == s.unit_price * s.quantity * NetPercent
ComputeTax(s) == s.unit_price * s.quantity * TaxPercent

\* line 242
updated_quantity(doc, s) == doc.Quantity - s.quantity

\* lines 219-222: date and time are stamped over what the caller sent
Stamped(body) == [body EXCEPT !.date = "now", !.time = "now"]

\* lines 228-229: 404 "Product not found"
RejectNotFound(r) ==
    /\ pc' = [pc EXCEPT ![r] = "not_found"]
    /\ UNCHANGED <<inventory, sales>>

\* faulty variant: the decrement is written before the stock check rejects
RejectInsufficientAfterWrite(r) ==
    /\ pc' = [pc EXCEPT ![r] = "insufficient"]
    /\ inventory' = update_one_products(inventory, sale'[r].product_line,
            find_one_products(inventory, sale'[r].product_line).Quantity
                - sale'[r].quantity)
    /\ UNCHANGED sales

\* lines 232-235: 404 "Insufficient quantity in inventory"
RejectInsufficient(r) ==
    /\ pc' = [pc EXCEPT ![r] = "insufficient"]
    /\ UNCHANGED <<inventory, sales>>

\* lines 219-239: request r arrives with body, find_one reads the inventory,
\* the checks run, total and tax are computed.  The code before the first
\* await touches no shared state, so arrival and read are one step; request
\* slots are numbered by arrival.
FindOne(r, body) ==
    /\ pc[r] = "idle"
    /\ \A k \in Req : k < r => pc[k] # "idle"
    /\ LET s == Stamped(body)
           doc == find_one_products(inventory, s.product_line)
           passes == doc # None /\ ~InsufficientQuantity(doc, s)
       IN
        /\ product_in_inventory' = [product_in_inventory EXCEPT ![r] = doc]
        /\ sale' = [sale EXCEPT ![r] =
                       IF passes
                       THEN [s EXCEPT !.total = ComputeTotal(s),
                                      !.tax_5_percent = ComputeTax(s)]
                       ELSE s]
        /\ IF doc = None THEN RejectNotFound(r)
           ELSE IF InsufficientQuantity(doc, s) THEN RejectInsufficient(r)
           ELSE /\ pc' = [pc EXCEPT ![r] = "update_one"]
                /\ UNCHANGED <<inventory, sales>>
    /\ UNCHANGED <<nextId, update_result, insert_result, response, inventory0>>

\* lines 242-246: the inventory write; its result is not looked at
UpdateOne(r) ==
    /\ pc[r] = "update_one"
    /\ inventory' = update_one_products(inventory, sale[r].product_line,
                        updated_quantity(product_in_inventory[r], sale[r]))
    /\ update_result' = [update_result EXCEPT
                            ![r] = matched_products(inventory, sale[r].product_line)]
    /\ pc' = [pc EXCEPT ![r] = "insert_one"]
    /\ UNCHANGED <<sales, nextId, sale, product_in_inventory, insert_result,
                   response, inventory0>>

\* the document insert_one stores: sale.dict() plus the generated _id
SaleDoc(s, id) ==
    [_id |-> id, product_line |-> s.product_line, unit_price |-> s.unit_price,
     quantity |-> s.quantity, tax_5_percent |-> s.tax_5_percent,
     total |-> s.total, date |-> s.date, time |-> s.time]

\* faulty variant: a sale equal to a stored one is not stored again
InsertOneIdempotent(r) ==
    /\ pc[r] = "insert_one"
    /\ LET same == {i \in DOMAIN sales :
                       SaleDoc(sale[r], sales[i]._id) = sales[i]} IN
       IF same = {}
       THEN /\ sales' = Append(sales, SaleDoc(sale[r], Len(sales) + 1))
            /\ insert_result' = [insert_result EXCEPT ![r] = Len(sales) + 1]
       ELSE /\ sales' = sales
            /\ insert_result' = [insert_result EXCEPT ![r] = Min(same)]
    /\ pc' = [pc EXCEPT ![r] = "done"]
    /\ UNCHANGED <<inventory, nextId, sale, product_in_inventory,
                   update_result, response, inventory0>>

\* lines 249-252: the sale is stored and returned
InsertOne(r) ==
    /\ pc[r] = "insert_one"
    /\ sales' = Append(sales, SaleDoc(sale[r], Len(sales) + 1))
    /\ insert_result' = [insert_result EXCEPT ![r] = Len(sales) + 1]
    /\ pc' = [pc EXCEPT ![r] = "done"]
    /\ UNCHANGED <<inventory, nextId, sale, product_in_inventory,
                   update_result, response, inventory0>>

\* faulty variant: a failed insert puts the quantity read back
InsertFailsCompensated(r) ==
    /\ pc[r] = "insert_one"
    /\ \E how \in {"insert_raised", "failed_to_add"} :
          pc' = [pc EXCEPT ![r] = how]
    /\ insert_result' = [insert_result EXCEPT ![r] = 0]
    /\ inventory' = update_one_products(inventory, sale[r].product_line,
                                        product_in_inventory[r].Quantity)
    /\ UNCHANGED <<sales, nextId, sale, product_in_inventory,
                   update_result, response, inventory0>>

\* lines 249-254: insert_one raises (500 from the framework) or returns no
\* inserted id (500 "Failed to add sale"); nothing follows either
InsertFails(r) ==
    /\ pc[r] = "insert_one"
    /\ \E how \in {"insert_raised", "failed_to_add"} :
          pc' = [pc EXCEPT ![r] = how]
    /\ insert_result' = [insert_result EXCEPT ![r] = 0]
    /\ UNCHANGED <<inventory, sales, nextId, sale, product_in_inventory,
                   update_result, response, inventory0>>

\* line 224: find_one raises; the handler has no try, the framework
\* answers 500
FindFails(r, body) ==
    /\ pc[r] = "idle"
    /\ \A k \in Req : k < r => pc[k] # "idle"
    /\ sale' = [sale EXCEPT ![r] = Stamped(body)]
    /\ pc' = [pc EXCEPT ![r] = "find_raised"]
    /\ UNCHANGED <<inventory, sales, nextId, product_in_inventory,
                   update_result, insert_result, response, inventory0>>

\* line 243: update_one raises, likewise
UpdateFails(r) ==
    /\ pc[r] = "update_one"
    /\ pc' = [pc EXCEPT ![r] = "update_raised"]
    /\ UNCHANGED <<inventory, sales, nextId, sale, product_in_inventory,
                   update_result, insert_result, response, inventory0>>

Rejected == {"not_found", "insufficient"}
Failed == {"find_raised", "update_raised", "insert_raised", "failed_to_add"}
Finished == {"done"} \cup Rejected \cup Failed
InFlight == {"update_one", "insert_one"}

\* ------------------------------------------------------------ error_handling
\* ErrorHandling.handle_not_found_error(resource_name)
handle_not_found_error(resource) ==
    [status |-> 404,
     detail |-> IF resource = "Item" THEN "Item not found"
                ELSE "Product not found"]

\* ErrorHandling.handle_internal_server_error()
handle_internal_server_error ==
    [status |-> 500, detail |-> "Internal Server Error"]

\* "except Exception as e: raise error_handler.handle_internal_server_error()":
\* whatever was raised inside the try, HTTPException included, leaves as 500
ExceptException(e) ==
    [status |-> handle_internal_server_error.status,
     detail |-> handle_internal_server_error.detail, e |-> e]

\* what the handlers' try blocks raise
StorageError == "storage error"
InvalidId == "bson.errors.InvalidId"
NotFound(resource) == handle_not_found_error(resource).detail

\* InventoryErrorHandler.handle_quantity_warning: TRUE when it raises
handle_quantity_warning_raises(quantity) == quantity < WarningThreshold

\* ------------------------------------------------------ inventory handlers
\* e is the exception the handler's except clause caught, "" if none
\* item_id is the n of the path parameter (0 when there is none or it is no
\* ObjectId)
NoResponse == [op |-> "none", item_id |-> 0, status |-> 0, detail |-> "",
               e |-> "", args |-> <<>>, low_quantity_items |-> <<>>]

Respond(op, item_id, x) ==
    [op |-> op, item_id |-> item_id.n, status |-> x.status,
     detail |-> x.detail, e |-> x.e,
     args |-> <<>>, low_quantity_items |-> <<>>]

Ok(op, item_id, detail) ==
    Respond(op, item_id, [status |-> 200, detail |-> detail, e |-> ""])

NoItemId == [valid |-> FALSE, n |-> 0]

\* the item_id path parameter: a string that is the hex form of ObjectId n,
\* or a string ObjectId() refuses
ItemIds == {NoItemId} \cup [valid : {TRUE}, n : 1..MaxId]

\* stored _ids are ObjectIds (insert_one generates them); a query key is an
\* ObjectId or the raw string, and a string equals no ObjectId
MatchId(coll, key) ==
    {i \in DOMAIN coll : key.type = "ObjectId" /\ coll[i]._id = key.n}

RemoveAt(s, i) == SubSeq(s, 1, i - 1) \o SubSeq(s, i + 1, Len(s))

\* InventoryUpdate bodies: set is the set of fields the caller supplied
\* (exclude_unset keeps exactly those); a field left out is Python None
InventoryUpdates(quantities) ==
    {u \in [set : SUBSET {"Products", "Quantity"},
            Products : Names \cup {"None"}, Quantity : quantities \cup {0}] :
        /\ ("Products" \in u.set) = (u.Products # "None")
        /\ "Quantity" \notin u.set => u.Quantity = 0}

\* {"$set": updated_item.dict(exclude_unset=True)} applied to one document
ApplySet(doc, u) ==
    [doc EXCEPT !.Products = IF "Products" \in u.set THEN u.Products ELSE @,
                !.Quantity = IF "Quantity" \in u.set THEN u.Quantity ELSE @]

\* GET /inventory/{item_id}
get_item(item_id, ok) ==
    /\ LET found == MatchId(inventory, [type |-> "str", n |-> item_id.n]) IN
       response' =
          IF ~ok THEN Respond("get_item", item_id, ExceptException(StorageError))
          ELSE IF found # {} THEN Ok("get_item", item_id, "item")
          ELSE Respond("get_item", item_id, ExceptException(NotFound("Item")))
    /\ UNCHANGED <<inventory, sales, nextId, pc, sale, product_in_inventory,
                   update_result, insert_result, inventory0>>

\* POST /inventory
add_inventory(item, ok) ==
    /\ Len(inventory) < MaxItems
    /\ nextId <= MaxId
    /\ IF ok
       THEN /\ inventory' = Append(inventory,
                   [_id |-> nextId, Products |-> item.Products,
                    Quantity |-> item.Quantity])
            /\ nextId' = nextId + 1
            /\ response' = Ok("add_inventory", NoItemId, "item")
       ELSE /\ UNCHANGED <<inventory, nextId>>
            /\ response' = Respond("add_inventory", NoItemId, ExceptException(StorageError))
    /\ UNCHANGED <<sales, pc, sale, product_in_inventory, update_result,
                   insert_result, inventory0>>

\* PUT /inventory/{item_id}.  ObjectId(item_id) raises on a malformed id; an
\* update with no field set is refused by the storage layer or modifies
\* nothing: both end in the except clause.  modified_count counts a matched
\* document only when the $set changed it.
update_inventory(item_id, u, ok) ==
    /\ LET found == MatchId(inventory, [type |-> "ObjectId", n |-> item_id.n])
           i == Min(found)
           raised == ~item_id.valid \/ ~ok \/ u.set = {}
           modified_count ==
               IF raised \/ found = {} THEN 0
               ELSE IF ApplySet(inventory[i], u) # inventory[i] THEN 1 ELSE 0
       IN
        /\ inventory' = IF modified_count > 0
                        THEN [inventory EXCEPT ![i] = ApplySet(@, u)]
                        ELSE inventory
        /\ response' =
              IF ~item_id.valid
              THEN Respond("update_inventory", item_id, ExceptException(InvalidId))
              ELSE IF raised
              THEN Respond("update_inventory", item_id, ExceptException(StorageError))
              ELSE IF modified_count > 0
                   THEN Ok("update_inventory", item_id, "Item updated successfully")
              ELSE Respond("update_inventory", item_id,
                           ExceptException(NotFound("Item")))
    /\ UNCHANGED <<sales, nextId, pc, sale, product_in_inventory,
                   update_result, insert_result, inventory0>>

\* DELETE /inventory/{item_id}
delete_inventory(item_id, ok) ==
    /\ LET found == MatchId(inventory, [type |-> "ObjectId", n |-> item_id.n])
           raised == ~item_id.valid \/ ~ok
           deleted_count == IF raised \/ found = {} THEN 0 ELSE 1
       IN
        /\ inventory' = IF deleted_count > 0
                        THEN RemoveAt(inventory, Min(found))
                        ELSE inventory
        /\ response' =
              IF ~item_id.valid
              THEN Respond("delete_inventory", item_id, ExceptException(InvalidId))
              ELSE IF raised
              THEN Respond("delete_inventory", item_id, ExceptException(StorageError))
              ELSE IF deleted_count > 0
                   THEN Ok("delete_inventory", item_id, "Item deleted successfully")
              ELSE Respond("delete_inventory", item_id,
                           ExceptException(NotFound("Item")))
    /\ UNCHANGED <<sales, nextId, pc, sale, product_in_inventory,
                   update_result, insert_result, inventory0>>

\* find({"Quantity": {"$lt": 10}}).to_list(length=100)
FindLowQuantity(coll) ==
    LET low == SelectSeq(coll, LAMBDA d : d.Quantity < LowQuantityQuery) IN
    IF Len(low) > ListCap THEN SubSeq(low, 1, ListCap) ELSE low

\* the loop of check_low_quantity_warning over items, warning_messages being
\* what was appended so far: the response it ends with
RECURSIVE WarningLoop(_, _)
WarningLoop(items, warning_messages) ==
    IF items = <<>>
    THEN [op |-> "check_low_quantity_warning", item_id |-> 0,
          status |-> 200, detail |-> "",
          e |-> "", args |-> <<>>, low_quantity_items |-> warning_messages]
    ELSE LET item == Head(items)
             appended == Append(warning_messages,
                            [product_name |-> item.Products,
                             quantity |-> item.Quantity])
         IN IF handle_quantity_warning_raises(item.Quantity)
            THEN \* HTTPException(status_code=200, detail=f"Warning: ...")
                 [op |-> "check_low_quantity_warning", item_id |-> 0,
                  status |-> 200,
                  detail |-> "Warning: Product quantity is low", e |-> "",
                  args |-> <<item.Products, item.Quantity>>,
                  low_quantity_items |-> <<>>]
            ELSE WarningLoop(Tail(items), appended)

\* GET /inventory/low_quantity_warning (no try: a storage error is a bare 500)
check_low_quantity_warning(ok) ==
    /\ response' =
          IF ok THEN WarningLoop(FindLowQuantity(inventory), <<>>)
          ELSE Respond("check_low_quantity_warning", NoItemId,
                       [status |-> 500, detail |-> "Internal Server Error",
                        e |-> ""])
    /\ UNCHANGED <<inventory, sales, nextId, pc, sale, product_in_inventory,
                   update_result, insert_result, inventory0>>

\* ------------------------------------------------------------------- Init
\* what earlier add_inventory calls can have stored, in order.  The handlers
\* address a product by its first document, so the order of two documents
\* of different names changes nothing and the names are taken sorted; a
\* document that is not the first of its name is never read or written by
\* add_new_sale and is given the one Quantity MaxStock.
SeedDocs(n) ==
    {f \in [1..n -> [Products : Names, Quantity : 0..MaxStock]] :
        \A i \in 2..n :
            /\ f[i - 1].Products = "A" \/ f[i].Products = "B"
            /\ f[i - 1].Products = f[i].Products => f[i].Quantity = MaxStock}
SeedInventory(f) ==
    [i \in DOMAIN f |-> [_id |-> i, Products |-> f[i].Products,
                         Quantity |-> f[i].Quantity]]

\* the fields every start has in common
InitRequests ==
    /\ sales = <<>>
    /\ pc = [r \in Req |-> "idle"]
    /\ sale = [r \in Req |-> NoSale]
    /\ product_in_inventory = [r \in Req |-> None]
    /\ update_result = [r \in Req |-> NotCalled]
    /\ insert_result = [r \in Req |-> NotCalled]
    /\ response = NoResponse

\* a fresh deployment: both collections empty
Init ==
    /\ inventory = <<>>
    /\ inventory0 = <<>>
    /\ nextId = 1
    /\ InitRequests

\* a stocked deployment: the inventory holds what earlier add_inventory
\* calls put there, and no sale was recorded yet
InitStocked ==
    /\ \E n \in 0..MaxItems : \E f \in SeedDocs(n) :
          /\ inventory = SeedInventory(f)
          /\ inventory0 = SeedInventory(f)
          /\ nextId = n + 1
    /\ InitRequests

\* -------------------------------------------- concurrent sales, no faults
ConcurrentPrices == {10}
ConcurrentSupplied == {0}

NextSales ==
    \/ \E r \in Req : \E body \in SaleBodies(ConcurrentPrices, ConcurrentSupplied) :
          FindOne(r, body)
    \/ \E r \in Req : UpdateOne(r)
    \/ \E r \in Req : InsertOne(r)

SpecSales == InitStocked /\ [][NextSales]_vars

\* --------------------------------- sales handled one at a time, with faults
SeqPrices == {3, 10}
SeqSupplied == {999}

NoneInFlight == \A r \in Req : pc[r] \notin InFlight

\* the calls served one after the other: a first and a second one
Calls == {r \in Req : r <= 2}

NextSeq ==
    \/ \E r \in Calls : \E body \in SaleBodies(SeqPrices, SeqSupplied) :
          NoneInFlight /\ FindOne(r, body)
    \/ \E r \in Calls : \E body \in SaleBodies(SeqPrices, SeqSupplied) :
          NoneInFlight /\ FindFails(r, body)
    \/ \E r \in Calls : UpdateOne(r)
    \/ \E r \in Calls : UpdateFails(r)
    \/ \E r \in Calls : InsertOne(r)
    \/ \E r \in Calls : InsertFails(r)

SpecSeq == InitStocked /\ [][NextSeq]_vars

\* ------------------------------------------------ inventory handlers alone
InventoryQuantities ==
    (0..MaxStock) \cup {LowQuantityQuery - 1, LowQuantityQuery, LowQuantityQuery + 1}

NextInv ==
    \/ \E id \in ItemIds : \E ok \in BOOLEAN : get_item(id, ok)
    \/ \E p \in Names : \E q \in InventoryQuantities : \E ok \in BOOLEAN :
          add_inventory([Products |-> p, Quantity |-> q], ok)
    \/ \E id \in ItemIds : \E u \in InventoryUpdates(InventoryQuantities) :
          \E ok \in BOOLEAN : update_inventory(id, u, ok)
    \/ \E id \in ItemIds : \E ok \in BOOLEAN : delete_inventory(id, ok)
    \/ \E ok \in BOOLEAN : check_low_quantity_warning(ok)

SpecInv == Init /\ [][NextInv]_vars

\* ------------- one sale request racing the inventory handlers that write
WriterQuantities == {0, MaxStock}

OthersIdle(r) == \A k \in Req \ {r} : pc[k] = "idle"

Next ==
    \/ \E r \in Req : \E body \in SaleBodies(ConcurrentPrices, ConcurrentSupplied) :
          OthersIdle(r) /\ FindOne(r, body)
    \/ \E r \in Req : UpdateOne(r)
    \/ \E r \in Req : InsertOne(r)
    \/ \E p \in Names : \E q \in WriterQuantities :
          add_inventory([Products |-> p, Quantity |-> q], TRUE)
    \/ \E id \in ItemIds : \E u \in InventoryUpdates(WriterQuantities) :
          update_inventory(id, u, TRUE)
    \/ \E id \in ItemIds : delete_inventory(id, TRUE)

Spec == Init /\ [][Next]_vars

\* ================================================================== claims
RECURSIVE SumSeq(_)
SumSeq(s) == IF s = <<>> THEN 0 ELSE Head(s) + SumSeq(Tail(s))

\* quantity in stock of product p: the sum over the documents named p
Stock(coll, p) ==
    LET docs == SelectSeq(coll, LAMBDA d : d.Products = p) IN
    SumSeq([i \in 1..Len(docs) |-> docs[i].Quantity])

\* quantity sold of product p: the sum over the persisted sales of p
Sold(p) ==
    LET docs == SelectSeq(sales, LAMBDA d : d.product_line = p) IN
    SumSeq([i \in 1..Len(docs) |-> docs[i].quantity])

PastCheck == {"update_one", "insert_one", "done", "update_raised",
              "insert_raised", "failed_to_add"}
Wrote == {"insert_one", "done", "insert_raised", "failed_to_add"}
InsertFailed == {"insert_raised", "failed_to_add"}

\* C1: a request that add_new_sale rejects (404 Product not found, 404
\* Insufficient quantity) is rejected for that reason, its rejecting step
\* leaves both collections as they were, and it issued no write before.
C1_RejectionMutatesNothing ==
    /\ [][\A r \in Req :
            (pc[r] = "idle" /\ pc'[r] \in Rejected)
                => (inventory' = inventory /\ sales' = sales)]_vars
    /\ [](\A r \in Req : pc[r] \in Rejected =>
            /\ update_result[r] = NotCalled
            /\ insert_result[r] = NotCalled
            /\ (pc[r] = "not_found") = (product_in_inventory[r] = None)
            /\ pc[r] = "insufficient" =>
                  product_in_inventory[r].Quantity < sale[r].quantity)

\* C1 witness: one request was rejected for insufficient stock and another
\* for an unknown product, with items in stock
C1_Witness ==
    \E r1, r2 \in Req :
        /\ pc[r1] = "insufficient"
        /\ pc[r2] = "not_found"
        /\ inventory # <<>>

\* C2: a request that runs alone against an item whose Quantity is at least
\* the requested quantity is not rejected; its update takes exactly the
\* requested quantity off the item it read; its insert adds exactly one sale
\* whose total is unit_price * quantity * 0.95 and whose tax is
\* unit_price * quantity * 0.05 (in hundredths), whatever the caller sent.
C2_SaleAlone ==
    [][\A r \in Req :
        LET s == sale'[r]
            m == MatchProducts(inventory, s.product_line)
        IN
        /\ (pc[r] = "idle" /\ pc'[r] \in Rejected) =>
              (m = {} \/ inventory[Min(m)].Quantity < s.quantity)
        /\ (pc[r] = "idle" /\ pc'[r] = "update_one") =>
              /\ m # {}
              /\ inventory[Min(m)].Quantity >= s.quantity
              /\ product_in_inventory'[r] = inventory[Min(m)]
        /\ (pc[r] = "update_one" /\ pc'[r] = "insert_one") =>
              /\ m # {}
              /\ inventory[Min(m)] = product_in_inventory[r]
              /\ inventory' = [inventory EXCEPT
                                 ![Min(m)].Quantity = @ - s.quantity]
        /\ (pc[r] = "insert_one" /\ pc'[r] = "done") =>
              /\ Len(sales') = Len(sales) + 1
              /\ SubSeq(sales', 1, Len(sales)) = sales
              /\ LET d == sales'[Len(sales')] IN
                    /\ d.product_line = s.product_line
                    /\ d.unit_price = s.unit_price
                    /\ d.quantity = s.quantity
                    /\ d.total = d.unit_price * d.quantity * 95
                    /\ d.tax_5_percent = d.unit_price * d.quantity * 5
              /\ inventory' = inventory
              /\ m # {}
              /\ inventory[Min(m)].Quantity =
                    product_in_inventory[r].Quantity - s.quantity
      ]_vars

\* C2 witness: unit_price 10, quantity 3 against a stock of exactly 3 is
\* stored with total 28.5 and tax 1.5, and the stock is down to 0
C2_Witness ==
    \E r \in Req :
        /\ pc[r] = "done"
        /\ sale[r].unit_price = 10 /\ sale[r].quantity = 3
        /\ product_in_inventory[r].Quantity = 3
        /\ sales[insert_result[r]].total = 2850
        /\ sales[insert_result[r]].tax_5_percent = 150
        /\ find_one_products(inventory, sale[r].product_line).Quantity = 0

\* C3 as stated: two requests that both passed the stock check on the same
\* reading of the same product and whose quantities together exceed that
\* reading leave the product with a negative stored Quantity.
C3_OverdrawIsNegative ==
    \A r1, r2 \in Req :
        ( /\ r1 # r2
          /\ pc[r1] = "done" /\ pc[r2] = "done"
          /\ sale[r1].product_line = sale[r2].product_line
          /\ product_in_inventory[r1] = product_in_inventory[r2]
          /\ sale[r1].quantity + sale[r2].quantity
                > product_in_inventory[r1].Quantity )
        => \E i \in MatchProducts(inventory, sale[r1].product_line) :
              inventory[i].Quantity < 0

\* C3 amended: with add_new_sale the only writer, every Quantity a request
\* writes is the Quantity it read minus its own quantity, which its stock
\* check made non-negative; so every stored Quantity is the start-up one or
\* such a value, and none is negative, also after two requests oversold.
C3_NeverNegative ==
    /\ \A r \in Req : pc[r] \in PastCheck =>
          product_in_inventory[r].Quantity - sale[r].quantity >= 0
    /\ \A i \in DOMAIN inventory :
          /\ inventory[i].Quantity >= 0
          /\ \/ inventory[i].Quantity = inventory0[i].Quantity
             \/ \E r \in Req :
                   /\ pc[r] \in Wrote
                   /\ sale[r].product_line = inventory[i].Products
                   /\ inventory[i].Quantity =
                         product_in_inventory[r].Quantity - sale[r].quantity

\* C3 witness: two requests for the same product both passed the check,
\* both sales are stored, and together they sold more than was in stock
C3_Oversold ==
    \E r1, r2 \in Req :
        /\ r1 # r2
        /\ pc[r1] = "done" /\ pc[r2] = "done"
        /\ sale[r1].product_line = sale[r2].product_line
        /\ sale[r1].quantity > 0 /\ sale[r2].quantity > 0
        /\ Sold(sale[r1].product_line) > Stock(inventory0, sale[r1].product_line)

\* C4: the step at which the sale insert fails changes neither collection
\* (no sale stored, no quantity put back): the item keeps the Quantity the
\* request's update gave it; a finished request takes no further step; every
\* stored sale belongs to a request that succeeded; and a request that was
\* rejected or failed before its insert issued no write at all.
C4_InsertFailure ==
    /\ [][\A r \in Req :
            LET m == MatchProducts(inventory, sale[r].product_line) IN
            /\ (pc[r] = "insert_one" /\ pc'[r] \in InsertFailed) =>
                  /\ inventory' = inventory
                  /\ sales' = sales
                  /\ update_result[r] = 1 =>
                        /\ m # {}
                        /\ inventory'[Min(m)].Quantity =
                              product_in_inventory[r].Quantity - sale[r].quantity
            /\ (pc[r] \notin Finished /\ pc'[r] \in (Rejected \cup Failed) \ InsertFailed)
                  => (inventory' = inventory /\ sales' = sales)
            /\ pc[r] \in Finished => pc'[r] = pc[r]]_vars
    /\ [](\A r \in Req :
            /\ pc[r] \in InsertFailed =>
                  (update_result[r] # NotCalled /\ insert_result[r] = 0)
            /\ pc[r] \in (Rejected \cup Failed) \ InsertFailed =>
                  (update_result[r] = NotCalled /\ insert_result[r] = NotCalled))
    /\ [](\A i \in DOMAIN sales : \E r \in Req :
            pc[r] = "done" /\ insert_result[r] = sales[i]._id)

\* C4 witness: a request's insert failed after its update took a positive
\* quantity off the item: the stock is down and no sale is stored
C4_Witness ==
    \E r \in Req :
        /\ pc[r] \in InsertFailed
        /\ update_result[r] = 1
        /\ sale[r].quantity > 0
        /\ sales = <<>>
        /\ Stock(inventory, sale[r].product_line)
              = Stock(inventory0, sale[r].product_line) - sale[r].quantity

\* C5: a check_low_quantity_warning that the storage layer served answers
\* 200 with a low_quantity_items list holding the name and quantity of
\* exactly the items whose Quantity is below 10.
C5_LowQuantityListing ==
    (response.op = "check_low_quantity_warning" /\ response.status # 500) =>
        /\ response.status = 200
        /\ {response.low_quantity_items[i] :
                i \in DOMAIN response.low_quantity_items}
             = {[product_name |-> inventory[i].Products,
                 quantity |-> inventory[i].Quantity] :
                    i \in {j \in DOMAIN inventory : inventory[j].Quantity < 10}}

\* C6: get_item, update_inventory and delete_inventory, given a well-formed
\* id that no inventory document has and served by the storage layer, answer
\* 404 "Item not found" and leave the collection unchanged.
C6_NotFoundIs404 ==
    [][( /\ response'.op \in {"get_item", "update_inventory", "delete_inventory"}
         /\ response'.item_id # 0
         /\ response'.e # StorageError
         /\ \A i \in DOMAIN inventory : inventory[i]._id # response'.item_id )
        => ( /\ response'.status = 404
             /\ response'.detail = "Item not found"
             /\ inventory' = inventory )]_vars

\* C7: the same request issued twice, one call after the other, against an
\* item whose Quantity is at least twice the requested quantity: both calls
\* succeed (unless the storage layer fails), two sale documents are stored
\* and the item's Quantity is down by twice the requested quantity.
C7_NotIdempotent ==
    \A r1, r2 \in Req :
        ( /\ r1 < r2
          /\ \A k \in Req \ {r1, r2} : pc[k] = "idle"
          /\ pc[r1] \in Finished \ Failed /\ pc[r2] \in Finished \ Failed
          /\ sale[r1].product_line = sale[r2].product_line
          /\ sale[r1].unit_price = sale[r2].unit_price
          /\ sale[r1].quantity = sale[r2].quantity
          /\ product_in_inventory[r1] # None
          /\ product_in_inventory[r1].Quantity >= 2 * sale[r1].quantity )
        => ( /\ pc[r1] = "done" /\ pc[r2] = "done"
             /\ Len(sales) = 2
             /\ sales[2] = [sales[1] EXCEPT !._id = 2]
             /\ find_one_products(inventory, sale[r1].product_line).Quantity
                   = product_in_inventory[r1].Quantity - 2 * sale[r1].quantity )

\* C7 witness: the same request for a positive quantity succeeded twice
C7_Witness ==
    \E r1, r2 \in Req :
        /\ r1 < r2
        /\ pc[r1] = "done" /\ pc[r2] = "done"
        /\ sale[r1] = sale[r2]
        /\ sale[r1].quantity > 0
        /\ Len(sales) = 2
        /\ Stock(inventory, sale[r1].product_line)
              = Stock(inventory0, sale[r1].product_line) - 2 * sale[r1].quantity

\* C8: every sale document in the sales collection has quantity > 0.
C8_SaleQuantityPositive ==
    \A i \in DOMAIN sales : sales[i].quantity > 0

\* C9: once every add_new_sale request has finished, for every product the
\* start-up stock minus the current stock equals the quantity sold (stated
\* for requests of positive quantities, the ones C8 allows).
C9_StockConservation ==
    ( /\ \A r \in Req : pc[r] \in Finished \cup {"idle"}
      /\ \A r \in Req : pc[r] # "idle" => sale[r].quantity > 0 )
    => \A p \in Names : Stock(inventory0, p) - Stock(inventory, p) = Sold(p)

\* C10: the update of a request whose sale is then inserted matches an
\* existing item and leaves it with the Quantity stored immediately before
\* that write minus the sale's quantity; no sale is inserted by a request
\* whose update matched nothing (stated for requests of positive quantities).
C10_SaleOnlyIfDecremented ==
    [][\A r \in Req :
        LET m == MatchProducts(inventory, sale[r].product_line) IN
        sale[r].quantity > 0 =>
           /\ (pc[r] = "update_one" /\ pc'[r] = "insert_one") =>
                 /\ m # {}
                 /\ inventory' = [inventory EXCEPT
                                    ![Min(m)].Quantity = @ - sale[r].quantity]
           /\ (pc[r] = "insert_one" /\ pc'[r] = "done") => update_result[r] = 1
      ]_vars

====
